---- MODULE Spec2Model ----
(***************************************************************************)
(* Model of needlehaystack/providers/openai.py: the OpenAI provider's      *)
(* constructor and its decode_tokens method (token truncation with an      *)
(* optional back-off to the last sentence boundary).                       *)
(*                                                                         *)
(* Text is a sequence of Unicode code points (a Python str), a token       *)
(* sequence is a sequence of token ids (a Python list[int]).  An           *)
(* Optional value is <<>> for None and <<v>> for the value v.              *)
(***************************************************************************)
EXTENDS Integers, Sequences, FiniteSets, TLC

VARIABLES environ, provider, raised, init_args, tokens, pc, call_args, result

vars == <<environ, provider, raised, init_args, tokens, pc, call_args, result>>

(***************************************************************************)
(* Bounds of the model.                                                    *)
(***************************************************************************)
MaxLen == 3
MaxConcLen == 2
ExtraLen == 2
NumContexts == 2

None == <<>>
Some(v) == <<v>>

Min(a, b) == IF a < b THEN a ELSE b
Max(a, b) == IF a > b THEN a ELSE b

(***************************************************************************)
(* The tokenizer (tiktoken, cl100k_base).  An excerpt of its vocabulary:   *)
(* token id |-> the text the token decodes to.                             *)
(*   32 "A"   33 "B"   13 "."   0 "!"   30 "?"   220 " "   198 "\n"        *)
(*   1811 U+3002   6447 U+FF01   11571 U+FF1F  (full-width . ! ?)          *)
(***************************************************************************)
token_text(t) ==
    CASE t = 32    -> <<65>>
      [] t = 33    -> <<66>>
      [] t = 13    -> <<46>>
      [] t = 0     -> <<33>>
      [] t = 30    -> <<63>>
      [] t = 220   -> <<32>>
      [] t = 198   -> <<10>>
      [] t = 1811  -> <<12290>>
      [] t = 6447  -> <<65281>>
      [] t = 11571 -> <<65311>>

Vocab == {32, 13, 0, 30, 220, 198, 1811, 6447, 11571}
ConcVocab == {32, 13, 220, 1811}

RECURSIVE decode(_)
decode(toks) ==
    IF toks = <<>> THEN <<>> ELSE token_text(Head(toks)) \o decode(Tail(toks))

(***************************************************************************)
(* Python built-ins used by decode_tokens.                                 *)
(***************************************************************************)
\* seq[:n]
Slice_inclusive(s, n) ==
    IF n >= 0 THEN SubSeq(s, 1, Min(n + 1, Len(s)))
              ELSE SubSeq(s, 1, Max(Len(s) + n + 1, 0))

Slice_short(s, n) ==
    IF n >= 0 THEN SubSeq(s, 1, Min(Max(n - 1, 0), Len(s)))
              ELSE SubSeq(s, 1, Max(Len(s) + n, 0))

Slice(s, n) ==
    IF n >= 0 THEN SubSeq(s, 1, Min(n, Len(s)))
              ELSE SubSeq(s, 1, Max(Len(s) + n, 0))

\* the characters str.rstrip() removes (str.isspace)
whitespace ==
    {9, 10, 11, 12, 13, 28, 29, 30, 31, 32, 133, 160, 5760, 8232, 8233, 8239, 8287, 12288}
        \cup (8192..8202)

RECURSIVE rstrip_blanks(_)
rstrip_blanks(text) ==
    IF text # <<>> /\ text[Len(text)] = 32
    THEN rstrip_blanks(SubSeq(text, 1, Len(text) - 1))
    ELSE text

RECURSIVE rstrip(_)
rstrip(text) ==
    IF text # <<>> /\ text[Len(text)] \in whitespace
    THEN rstrip(SubSeq(text, 1, Len(text) - 1))
    ELSE text

\* sub occurs in text at the 0-based index i
occurs_at(text, sub, i) ==
    /\ i >= 0
    /\ i + Len(sub) <= Len(text)
    /\ SubSeq(text, i + 1, i + Len(sub)) = sub

\* str.find, the 0-based index of the first occurrence, or -1
find(text, sub) ==
    LET hits == {i \in 0..Len(text) : occurs_at(text, sub, i)}
    IN  IF hits = {} THEN -1 ELSE CHOOSE i \in hits : \A j \in hits : i <= j

\* str.rfind, the 0-based index of the last occurrence, or -1
rfind(text, sub) ==
    LET hits == {i \in 0..Len(text) : occurs_at(text, sub, i)}
    IN  IF hits = {} THEN -1 ELSE CHOOSE i \in hits : \A j \in hits : j <= i

(***************************************************************************)
(* decode_tokens                                                           *)
(***************************************************************************)
sentence_endings_bare ==
    << <<46>>, <<33>>, <<63>>, <<12290>>, <<65281>>, <<65311>> >>

sentence_endings ==
    << <<46, 32>>, <<33, 32>>, <<63, 32>>, <<12290>>, <<65281>>, <<65311>> >>

\* the for loop: last_end after the endings i.. have been looked up
RECURSIVE scan_endings(_, _, _)
scan_endings(truncated_text, i, last_end) ==
    IF i > Len(sentence_endings)
    THEN last_end
    ELSE LET pos == rfind(truncated_text, sentence_endings[i])
         IN  scan_endings(truncated_text, i + 1, Max(last_end, pos))

\* the sentence-preserving branch, applied to the truncated text
preserve_cut_exclusive(truncated_text) ==
    LET last_end == scan_endings(truncated_text, 1, -1)
    IN  IF last_end # -1
        THEN rstrip(Slice(truncated_text, last_end))
        ELSE rstrip(truncated_text)

preserve_cut_raw_fallback(truncated_text) ==
    LET last_end == scan_endings(truncated_text, 1, -1)
    IN  IF last_end # -1
        THEN rstrip(Slice(truncated_text, last_end + 1))
        ELSE truncated_text

preserve_cut(truncated_text) ==
    LET last_end == scan_endings(truncated_text, 1, -1)
    IN  IF last_end # -1
        THEN rstrip(Slice(truncated_text, last_end + 1))
        ELSE rstrip(truncated_text)

decode_tokens_strip_all(toks, context_length, preserve_sentence) ==
    IF context_length = None
    THEN rstrip(decode(toks))
    ELSE LET truncated_text == decode(Slice(toks, context_length[1]))
         IN  IF ~preserve_sentence
             THEN rstrip(truncated_text)
             ELSE preserve_cut(truncated_text)

decode_tokens(toks, context_length, preserve_sentence) ==
    IF context_length = None
    THEN decode(toks)
    ELSE LET truncated_text == decode(Slice(toks, context_length[1]))
         IN  IF ~preserve_sentence
             THEN rstrip(truncated_text)
             ELSE preserve_cut(truncated_text)

(***************************************************************************)
(* The constructor                                                         *)
(***************************************************************************)
\* temperature is written as its decimal literal
DEFAULT_MODEL_KWARGS == [max_tokens |-> 350, temperature |-> "0"]

\* openai.AsyncOpenAI(api_key, base_url): without an api_key argument the
\* client reads OPENAI_API_KEY and raises OpenAIError when it is not set
AsyncOpenAI(api_key, base_url, env) ==
    IF api_key = None /\ env.OPENAI_API_KEY = None
    THEN [raised |-> "OpenAIError", client |-> None]
    ELSE [raised |-> "none",
          client |-> Some([api_key |-> IF api_key = None THEN env.OPENAI_API_KEY ELSE api_key,
                           base_url |-> base_url])]

OpenAI_init(model_name, model_kwargs, api_key, base_url, env) ==
    LET kwargs == IF model_name = "MiniMax-Text-01"
                  THEN [max_tokens |-> 350, temperature |-> "0.1"]
                  ELSE model_kwargs
        made   == AsyncOpenAI(api_key, base_url, env)
    IN  IF made.raised # "none"
        THEN [raised |-> made.raised, self |-> None]
        ELSE [raised |-> "none",
              self   |-> Some([model_name   |-> model_name,
                               model_kwargs |-> kwargs,
                               api_key      |-> api_key,
                               base_url     |-> base_url,
                               model        |-> made.client[1],
                               tokenizer    |-> "cl100k_base"])]

(***************************************************************************)
(* Inputs                                                                  *)
(***************************************************************************)
BoundedSeqs(S, n) == UNION {[1..k -> S] : k \in 0..n}

\* "A. B." and "A. B. A."
Examples == { <<32, 13, 220, 33, 13>>, <<32, 13, 220, 33, 13, 220, 32, 13>> }

Inputs == BoundedSeqs(Vocab, MaxLen) \cup Examples
ConcInputs == BoundedSeqs(ConcVocab, MaxConcLen)

ContextLengths(toks) == {None} \cup {Some(n) : n \in 0..(Len(toks) + ExtraLen)}

Contexts == 1..NumContexts
Caller == CHOOSE c \in Contexts : \A d \in Contexts : c <= d

ModelNames == {"gpt-3.5-turbo-0125", "MiniMax-Text-01", "gpt-4", "gpt-4o"}
ModelKwargs == {DEFAULT_MODEL_KWARGS, [max_tokens |-> 100, temperature |-> "1"]}
ApiKeys == {None, Some("sk-arg")}
BaseUrls == {None, Some("https://api.example.com/v1")}
Environs == [NIAH_MODEL_API_KEY : {None, Some("sk-niah")},
             OPENAI_API_KEY     : {None, Some("sk-env")}]

NoCall == [tokens |-> <<>>, context_length |-> None, preserve_sentence |-> FALSE]

(***************************************************************************)
(* Actions                                                                 *)
(***************************************************************************)
\* provider = OpenAI(model_name, model_kwargs, api_key, base_url)
Construct(model_name, model_kwargs, api_key, base_url) ==
    /\ init_args = None
    /\ LET made == OpenAI_init(model_name, model_kwargs, api_key, base_url, environ)
       IN  /\ provider' = made.self
           /\ raised' = made.raised
    /\ init_args' = Some([model_name |-> model_name, model_kwargs |-> model_kwargs,
                          api_key |-> api_key, base_url |-> base_url])
    /\ UNCHANGED <<environ, tokens, pc, call_args, result>>

\* context c enters provider.decode_tokens(tokens, context_length, preserve_sentence)
Call(c, context_length, preserve_sentence) ==
    /\ provider # None
    /\ pc[c] = "idle"
    /\ pc' = [pc EXCEPT ![c] = "called"]
    /\ call_args' = [call_args EXCEPT ![c] = [tokens |-> tokens,
                                              context_length |-> context_length,
                                              preserve_sentence |-> preserve_sentence]]
    /\ UNCHANGED <<environ, provider, raised, init_args, tokens, result>>

\* a variant that truncates the caller's list in place (del tokens[n:])
Return_in_place(c) ==
    /\ pc[c] = "called"
    /\ result' = [result EXCEPT ![c] = decode_tokens(tokens, call_args[c].context_length,
                                                     call_args[c].preserve_sentence)]
    /\ tokens' = IF call_args[c].context_length = None
                 THEN tokens
                 ELSE Slice(tokens, call_args[c].context_length[1])
    /\ pc' = [pc EXCEPT ![c] = "returned"]
    /\ UNCHANGED <<environ, provider, raised, init_args, call_args>>

\* the body of decode_tokens runs in context c and returns
Return(c) ==
    /\ pc[c] = "called"
    /\ result' = [result EXCEPT ![c] = decode_tokens(tokens, call_args[c].context_length,
                                                     call_args[c].preserve_sentence)]
    /\ pc' = [pc EXCEPT ![c] = "returned"]
    /\ UNCHANGED <<environ, provider, raised, init_args, tokens, call_args>>

(***************************************************************************)
(* Specifications                                                          *)
(***************************************************************************)
DefaultEnviron == [NIAH_MODEL_API_KEY |-> Some("sk-niah"), OPENAI_API_KEY |-> None]

DefaultArgs == [model_name |-> "gpt-3.5-turbo-0125", model_kwargs |-> DEFAULT_MODEL_KWARGS,
                api_key |-> Some("sk-arg"), base_url |-> None]

Constructed ==
    /\ environ = DefaultEnviron
    /\ init_args = Some(DefaultArgs)
    /\ provider = OpenAI_init(DefaultArgs.model_name, DefaultArgs.model_kwargs,
                              DefaultArgs.api_key, DefaultArgs.base_url, DefaultEnviron).self
    /\ raised = "none"

Idle ==
    /\ pc = [c \in Contexts |-> "idle"]
    /\ call_args = [c \in Contexts |-> NoCall]
    /\ result = [c \in Contexts |-> <<>>]

\* one calling context, a provider built with an explicit key
Init ==
    /\ Constructed
    /\ tokens \in Inputs
    /\ Idle

Next ==
    \/ \E cl \in ContextLengths(tokens), ps \in BOOLEAN : Call(Caller, cl, ps)
    \/ Return(Caller)

Spec == Init /\ [][Next]_vars

\* several calling contexts sharing the provider and the token list
InitConc ==
    /\ Constructed
    /\ tokens \in ConcInputs
    /\ Idle

NextConc ==
    \/ \E c \in Contexts, cl \in ContextLengths(tokens), ps \in BOOLEAN : Call(c, cl, ps)
    \/ \E c \in Contexts : Return(c)

SpecConc == InitConc /\ [][NextConc]_vars

\* construction of the provider
InitCtor ==
    /\ environ \in Environs
    /\ provider = None
    /\ raised = "none"
    /\ init_args = None
    /\ tokens = <<>>
    /\ Idle

NextCtor ==
    \E mn \in ModelNames, kw \in ModelKwargs, key \in ApiKeys, url \in BaseUrls :
        Construct(mn, kw, key, url)

SpecInit == InitCtor /\ [][NextCtor]_vars

(***************************************************************************)
(* Vocabulary of the properties, stated on the text and independent of the *)
(* routines above.                                                         *)
(***************************************************************************)
Blank ==
    {9, 10, 11, 12, 13, 28, 29, 30, 31, 32, 133, 160, 5760, 8232, 8233, 8239, 8287, 12288}
        \cup (8192..8202)

\* the six markers: ". "  "! "  "? "  and the full-width  .  !  ?
Markers == { <<46, 32>>, <<33, 32>>, <<63, 32>>, <<12290>>, <<65281>>, <<65311>> }
Terminators == {46, 33, 63, 12290, 65281, 65311}
AsciiTerminators == {46, 33, 63}
FullWidthTerminators == {12290, 65281, 65311}

\* s without its trailing whitespace
Stripped(s) ==
    LET n == CHOOSE k \in 0..Len(s) :
                 /\ \A i \in (k + 1)..Len(s) : s[i] \in Blank
                 /\ k = 0 \/ s[k] \notin Blank
    IN  SubSeq(s, 1, n)

\* marker mk occurs in s starting at the (1-based) position p
MarkerAt(s, p, mk) ==
    /\ p + Len(mk) - 1 <= Len(s)
    /\ \A k \in 1..Len(mk) : s[p + k - 1] = mk[k]

Occurrences(s) == {o \in (1..Len(s)) \X Markers : MarkerAt(s, o[1], o[2])}
EndingIndex(o) == o[1] + Len(o[2]) - 1

RightMost(s) ==
    {o \in Occurrences(s) : \A q \in Occurrences(s) : q[2] = o[2] => q[1] <= o[1]}

\* the right-most occurrence with the greatest ending index
Selected(s) ==
    CHOOSE o \in RightMost(s) : \A q \in RightMost(s) : EndingIndex(q) <= EndingIndex(o)

\* s up to and including the terminator of the selected marker, stripped;
\* the whole of s, stripped, when no marker occurs
SentenceRule(s) ==
    IF Occurrences(s) = {}
    THEN Stripped(s)
    ELSE Stripped(SubSeq(s, 1, Selected(s)[1]))

Returned(c) == pc[c] = "returned"
Limited(c) == call_args[c].context_length # None
Limit(c) == call_args[c].context_length[1]
Sentence(c) == call_args[c].preserve_sentence
Full(c) == decode(call_args[c].tokens)

\* the decoding of the first min(m, len(T)) tokens
Window(c) ==
    decode(SubSeq(call_args[c].tokens, 1, Min(Limit(c), Len(call_args[c].tokens))))

EndsIn(s, chars) == s # <<>> /\ s[Len(s)] \in chars

(***************************************************************************)
(* Claims                                                                  *)
(***************************************************************************)

\* C1: with context_length None, decode_tokens returns exactly
\* tokenizer.decode(T) for both values of preserve_sentence: nothing is
\* dropped, cut or stripped.
C1_NoLimitIsPlainDecode ==
    \A c \in Contexts :
        (Returned(c) /\ ~Limited(c)) => result[c] = Full(c)

\* a call without limit, sentence-preserving, returned a text that has a
\* marker followed by more text and ends in whitespace
C1_Witness ==
    /\ Returned(Caller) /\ ~Limited(Caller) /\ Sentence(Caller)
    /\ EndsIn(result[Caller], Blank)
    /\ Occurrences(result[Caller]) # {}
    /\ Selected(result[Caller])[1] + 1 < Len(result[Caller])

\* C2 as stated: a limit larger than len(T) returns the same string as no
\* limit.
C2_LargeLimitSameAsNoLimit ==
    \A c \in Contexts :
        (Returned(c) /\ Limited(c) /\ Limit(c) > Len(call_args[c].tokens))
            => result[c] = decode_tokens(call_args[c].tokens, None, Sentence(c))

\* C2 amended: a limit larger than len(T) returns the no-limit text after
\* the stripping rule of preserve_sentence (right-strip, or sentence cut and
\* right-strip); it is identical to the no-limit result exactly when the
\* decoded text does not end in whitespace and, with preserve_sentence,
\* either contains no marker or ends in a full-width terminator.
C2_LargeLimitIsNoLimitStripped ==
    \A c \in Contexts :
        (Returned(c) /\ Limited(c) /\ Limit(c) > Len(call_args[c].tokens)) =>
            LET unlimited == decode_tokens(call_args[c].tokens, None, Sentence(c))
            IN  /\ result[c] = IF Sentence(c) THEN SentenceRule(unlimited)
                                              ELSE Stripped(unlimited)
                /\ (result[c] = unlimited) <=>
                       /\ ~EndsIn(unlimited, Blank)
                       /\ Sentence(c) =>
                              \/ Occurrences(unlimited) = {}
                              \/ EndsIn(unlimited, FullWidthTerminators)

\* a call with a limit beyond the sequence returned a text that differs from
\* the decoded sequence, which ends in whitespace
C2_Witness ==
    /\ Returned(Caller) /\ Limited(Caller)
    /\ Limit(Caller) > Len(call_args[Caller].tokens)
    /\ EndsIn(Full(Caller), Blank)
    /\ result[Caller] # Full(Caller)

\* C3: with a limit m >= 0 the call works on the decoding of the first
\* min(m, len(T)) tokens; without preserve_sentence the result is that text
\* right-stripped; for m >= len(T) the result is the result for m = len(T).
C3_LimitTakesFirstTokens ==
    \A c \in Contexts :
        (Returned(c) /\ Limited(c)) =>
            /\ Len(result[c]) <= Len(Window(c))
            /\ result[c] = SubSeq(Window(c), 1, Len(result[c]))
            /\ ~Sentence(c) => result[c] = Stripped(Window(c))
            /\ Limit(c) >= Len(call_args[c].tokens) =>
                   result[c] = decode_tokens(call_args[c].tokens,
                                             Some(Len(call_args[c].tokens)), Sentence(c))

\* a non-preserving call with a limit beyond a non-empty sequence whose
\* decoding ends in whitespace has returned
C3_Witness ==
    /\ Returned(Caller) /\ Limited(Caller) /\ ~Sentence(Caller)
    /\ Limit(Caller) > Len(call_args[Caller].tokens)
    /\ EndsIn(Window(Caller), Blank)
    /\ result[Caller] # <<>>

\* C4: with a limit and preserve_sentence, if a marker occurs in the
\* truncated text the result is the text up to and including the terminator
\* of the right-most occurrence with the greatest ending index,
\* right-stripped; otherwise it is the non-preserving result.
C4_CutAtLastMarker ==
    \A c \in Contexts :
        (Returned(c) /\ Limited(c) /\ Sentence(c)) =>
            /\ result[c] = SentenceRule(Window(c))
            /\ Occurrences(Window(c)) = {} =>
                   /\ result[c] = Stripped(Window(c))
                   /\ result[c] = decode_tokens(call_args[c].tokens,
                                                call_args[c].context_length, FALSE)

\* a preserving call returned where two different markers occur in the
\* truncated text and the cut dropped text after the selected one
C4_Witness ==
    /\ Returned(Caller) /\ Limited(Caller) /\ Sentence(Caller)
    /\ \E o, q \in Occurrences(Window(Caller)) : o[2] # q[2]
    /\ result[Caller] # Stripped(Window(Caller))

\* C5: for the same tokens and limit, the sentence-preserving result is
\* never longer than the non-preserving result.
C5_PreservingNotLonger ==
    \A c \in Contexts :
        (Returned(c) /\ Limited(c) /\ Sentence(c)) =>
            Len(result[c]) <= Len(decode_tokens(call_args[c].tokens,
                                                call_args[c].context_length, FALSE))

\* a preserving call returned a text strictly shorter than the
\* non-preserving one
C5_Witness ==
    /\ Returned(Caller) /\ Limited(Caller) /\ Sentence(Caller)
    /\ Len(result[Caller]) < Len(decode_tokens(call_args[Caller].tokens,
                                               call_args[Caller].context_length, FALSE))

\* C6: decode_tokens(T, 0, ps) is the empty string for every T and ps, and
\* decode_tokens([], m, ps) is the empty string for every m, absent or not.
C6_EmptyOnZeroOrEmpty ==
    \A c \in Contexts :
        Returned(c) =>
            /\ (Limited(c) /\ Limit(c) = 0) => result[c] = <<>>
            /\ call_args[c].tokens = <<>> => result[c] = <<>>

\* a preserving call with limit 0 on a non-empty sequence has returned
C6_Witness ==
    /\ Returned(Caller) /\ Limited(Caller) /\ Limit(Caller) = 0
    /\ Sentence(Caller)
    /\ call_args[Caller].tokens # <<>>

\* C7 as stated: with a limit and preserve_sentence the returned text always
\* ends in a sentence terminator.
C7_AlwaysEndsInTerminator ==
    \A c \in Contexts :
        (Returned(c) /\ Limited(c) /\ Sentence(c)) => EndsIn(result[c], Terminators)

\* C7 amended: with a limit and preserve_sentence, the returned text ends in
\* a sentence terminator whenever a marker occurs in the truncated text.
C7_EndsInTerminatorIfMarker ==
    \A c \in Contexts :
        (Returned(c) /\ Limited(c) /\ Sentence(c) /\ Occurrences(Window(c)) # {})
            => EndsIn(result[c], Terminators)

\* a preserving call returned where a marker occurs in the truncated text
\* and is followed by further text
C7_Witness ==
    /\ Returned(Caller) /\ Limited(Caller) /\ Sentence(Caller)
    /\ Occurrences(Window(Caller)) # {}
    /\ ~EndsIn(Window(Caller), Terminators \cup Blank)

\* C8: in every interleaving of calls, each call returns the value that its
\* own arguments (the token sequence as passed, context_length,
\* preserve_sentence) determine, equal arguments give equal results, and no
\* step changes the caller's token sequence or the provider.
C8_CallsAreIndependent ==
    /\ [](\A c \in Contexts :
              Returned(c) =>
                  /\ result[c] = decode_tokens(call_args[c].tokens,
                                               call_args[c].context_length,
                                               call_args[c].preserve_sentence)
                  /\ \A d \in Contexts :
                         (Returned(d) /\ call_args[d] = call_args[c]) => result[d] = result[c])
    /\ [][tokens' = tokens /\ provider' = provider]_vars

\* two contexts have returned from calls with different limits on a
\* sequence that the smaller limit truncates
C8_Witness ==
    \E c, d \in Contexts :
        /\ c # d /\ Returned(c) /\ Returned(d)
        /\ Limited(c) /\ Limit(c) < Len(tokens)
        /\ ~Limited(d)
        /\ result[c] # result[d]

\* C9: constructing the provider with api_key None while NIAH_MODEL_API_KEY
\* is not in the environment raises ValueError and yields no provider.
C9_MissingKeyRaisesValueError ==
    (/\ init_args # None
     /\ init_args[1].api_key = None
     /\ environ.NIAH_MODEL_API_KEY = None)
        => (raised = "ValueError" /\ provider = None)

\* C10: with a limit and preserve_sentence, when the truncated text ends in
\* an ASCII terminator and a marker occurs, the cut is made at that earlier
\* marker and the final character is dropped; a result that again ends in an
\* ASCII terminator after a marker is shortened again by the same cut.
C10_TrailingAsciiTerminatorIsNoBoundary ==
    \A c \in Contexts :
        (/\ Returned(c) /\ Limited(c) /\ Sentence(c)
         /\ EndsIn(Window(c), AsciiTerminators)
         /\ Occurrences(Window(c)) # {}) =>
            /\ Selected(Window(c))[1] < Len(Window(c))
            /\ result[c] = Stripped(SubSeq(Window(c), 1, Selected(Window(c))[1]))
            /\ Len(result[c]) < Len(Window(c))
            /\ (EndsIn(result[c], AsciiTerminators) /\ Occurrences(result[c]) # {})
                   => Len(preserve_cut(result[c])) < Len(result[c])

\* a preserving call on a text ending in an ASCII terminator returned a text
\* that the same cut shortens again
C10_Witness ==
    /\ Returned(Caller) /\ Limited(Caller) /\ Sentence(Caller)
    /\ EndsIn(Window(Caller), AsciiTerminators)
    /\ Occurrences(Window(Caller)) # {}
    /\ Len(result[Caller]) < Len(Window(Caller))
    /\ preserve_cut(result[Caller]) # result[Caller]

====
